---- MODULE Spec2Model ----
(***************************************************************************)
(* Model of reddit_cli.py: the retry/backoff executor                      *)
(* (RedditCLI._execute_with_retry), the startup path (main, load_config,   *)
(* _test_connection_with_retry) and the polling loop (monitor_post).       *)
(*                                                                         *)
(* The handlers only test which marker substrings str(e) contains, so an   *)
(* error message is the set of the markers that occur in it: the Python    *)
(* test `marker in str(e)` is membership, and `str(e).lower()` turns every *)
(* marker into its lower-case form.                                        *)
(***************************************************************************)
EXTENDS Integers, Sequences, FiniteSets, TLC

\* ---------------------------------------------------------------- bounds
MaxRetries == 4
MaxMarkers == 2
MaxRuns == 2
MaxChecks == 3
MaxListLen == 3
MaxLimit == 2

\* ------------------------------------------------------ program constants
\* default of the max_retries parameter
DefaultMaxRetries == 3
\* default of the delay parameter
DefaultDelay == 5
\* the wait of load_config before the connectivity check, in seconds
StartupWait == 10
\* the number of characters of a body kept in a search result
BodyCut == 200

\* ------------------------------------------------------------ input sets
\* initial delays tried: the default and the one of the spec's scenario A
Delays == {1, DefaultDelay}
RetryChoices == -1 .. MaxRetries
\* values of the max_checks argument tried
CheckChoices == -1 .. MaxChecks

\* the marker substrings, in the letter cases the model tells apart
Tokens == {"RATE_LIMIT", "rate_limit", "429", "401", "unauthorized",
           "Unauthorized"}

\* str.lower() on one marker
LowerTok(t) ==
    CASE t = "RATE_LIMIT" -> "rate_limit"
      [] t = "Unauthorized" -> "unauthorized"
      [] OTHER -> t

\* str.lower() on a message
StrLower(msg) == {LowerTok(t) : t \in msg}

\* Python `marker in msg`
Contains(msg, marker) == marker \in msg

\* the messages: at most MaxMarkers markers, none for any other text
Messages == {m \in SUBSET Tokens : Cardinality(m) <= MaxMarkers}

\* exception classes: praw's RedditAPIException, praw's ClientException,
\* and any other subclass of Exception
ExcTypes == {"RedditAPIException", "ClientException", "Exception"}
Errors == [type : ExcTypes, msg : Messages]
NoErr == [type |-> "none", msg |-> {}]
\* what one run of a wrapped function gives the executor
NoOutcome == [kind |-> "none", val |-> "Unset", err |-> NoErr]

\* values a wrapped operation can return (several return None or False)
Values == {"None", "False", "val1", "val2"}

\* comment ids, and the top-level comment lists one read of a submission
\* can give: a comment occurs once in a list
CommentIds == {"A", "B", "C"}
CommentLists ==
    {l \in UNION {[1 .. n -> CommentIds] : n \in 0 .. MaxListLen} :
        \A i, j \in 1 .. Len(l) : i # j => l[i] # l[j]}

\* states of the configuration file at startup
\* "template" is the file written by create_config_template in an earlier run
ConfigStates == {"absent", "valid", "template", "invalid_json", "missing_key"}
\* the command given on the command line, "none" when there is none
Commands == {"none", "post", "responses", "monitor", "delete", "upvote",
             "downvote"}

\* a string as the sequence of its characters: the URL of a post in the form
\* of the examples of the help text, the URL of a comment of that post, and
\* the short link of the post
PostUrlText ==
    <<"h", "t", "t", "p", "s", ":", "/", "/", "r", "e", "d", "d", "i", "t",
      ".", "c", "o", "m", "/", "r", "/", "a", "s", "k", "r", "e", "d", "d",
      "i", "t", "/", "c", "o", "m", "m", "e", "n", "t", "s", "/", "a", "b",
      "c", "1", "2", "3", "/", "p", "o", "s", "t", "/">>
CommentUrlText ==
    <<"h", "t", "t", "p", "s", ":", "/", "/", "r", "e", "d", "d", "i", "t",
      ".", "c", "o", "m", "/", "r", "/", "a", "s", "k", "r", "e", "d", "d",
      "i", "t", "/", "c", "o", "m", "m", "e", "n", "t", "s", "/", "a", "b",
      "c", "1", "2", "3", "/", "p", "o", "s", "t", "/", "d", "e", "f", "4",
      "5", "6">>
ShortUrlText ==
    <<"h", "t", "t", "p", "s", ":", "/", "/", "r", "e", "d", "d", ".", "i",
      "t", "/", "a", "b", "c", "1", "2", "3">>
CommentWord == <<"c", "o", "m", "m", "e", "n", "t">>

\* the values of the url argument, with what each designates
Urls == {[designates |-> "post", text |-> PostUrlText],
         [designates |-> "comment", text |-> CommentUrlText],
         [designates |-> "post", text |-> ShortUrlText]}
NoUrl == [designates |-> "none", text |-> <<>>]

\* Python `needle in hay` on strings
IsSubstring(needle, hay) ==
    \E i \in 0 .. (Len(hay) - Len(needle)) :
        \A j \in 1 .. Len(needle) : hay[i + j] = needle[j]

\* ------------------------------------------------------------- variables
VARIABLES
    pc,           \* position in _execute_with_retry: idle, loop or done
    max_retries,  \* the max_retries argument of the current call
    delay0,       \* the delay argument of the current call
    attempt,      \* loop variable of `for attempt in range(max_retries)`
    delay,        \* the local delay, doubled on every retry
    calls,        \* number of invocations of func in the current call
    sleeps,       \* the arguments of time.sleep in the current call, in order
    out,          \* the messages printed by the current call, in order
    lastErr,      \* the error raised by the last invocation of func, or NoErr
    lastRet,      \* the value returned by the last invocation of func,
                  \* "Unset" when there was none or it raised
    result,       \* the value returned by the current call, "Unset" before
    outcome,      \* how the call ended: none, returned_value,
                  \* terminal_failure or raised
    runs,         \* number of calls of _execute_with_retry so far
    retried_before,  \* an earlier call of _execute_with_retry has slept
    \* monitor_post
    mpc,               \* position in monitor_post: idle, loop, done, raised
    max_checks,        \* the max_checks argument
    check,             \* loop variable of `for check in range(max_checks)`
    seen_comment_ids,  \* the set seen_comment_ids
    all_responses,     \* the list all_responses, one entry per comment
    reads,             \* the comment lists read so far, one per check
    observed,          \* the comments of all reads so far, in reading order
    waits,             \* number of time.sleep(check_interval) so far
    \* main, load_config and _test_connection_with_retry
    spc,           \* position of the process: idle, load_config, connect,
                   \* command or exited
    command,       \* args.command
    config_file,   \* state of the configuration file
    reddit,        \* self.reddit: "None" or "session"
    startup_wait,  \* seconds slept by load_config before the check
    conn_attempt,  \* loop variable of _test_connection_with_retry
    conn_delay,    \* its local delay
    conn_calls,    \* number of calls of self.reddit.user.me()
    conn_sleeps,   \* the arguments of its time.sleep calls, in order
    conn_out,      \* the messages it printed, in order
    conn_lastErr,  \* the error raised by the last call of user.me(), or NoErr
    connected,     \* the connectivity check returned True
    cmd_calls,     \* number of command operations started on the gateway
    exit_status,   \* exit status of the process, -1 while it runs
    config_at_start,  \* state of the configuration file when main started
    config_loads,     \* number of runs of load_config
    url,              \* the URL argument of the command
    dispatched,       \* the operation the branch of main called, or "none"
    cmd_outcome,      \* none, success, failure_reported, uncaught_exception
    \* one domain operation run through the executor
    op,            \* the public method called, "none" when there is none
    author_is_me,  \* the item's author is the authenticated user
    impl_runs,     \* number of runs of the _impl function in this call
    impl_outcome,  \* what the last run gave: returned a value or raised
    gateway_err,   \* the error the gateway raised in the last run, or NoErr
    mutations,     \* number of remote delete/edit calls issued in this call
    item_changed,  \* the remote item was deleted or edited
    op_result,     \* the value the public method returned, "Unset" before
    post_url,      \* the url argument of post_to_subreddit, "None" if absent
    post_content,  \* its content argument, "None" if absent
    submits,       \* the calls of subreddit.submit in this call, in order
    \* _search_comments_impl
    qpc,        \* position in _search_comments_impl: idle, loop or done
    query,      \* the query argument
    limit,      \* the limit argument
    listing,    \* the bodies of the comments the gateway lists, in order
    inspected,  \* number of comments taken from the listing so far
    found       \* the local list `comments`: for each entry the body of the
                \* comment and the 'body' field stored for it

evars == <<pc, max_retries, delay0, attempt, delay, calls, sleeps, out,
           lastErr, lastRet, result, outcome, runs, retried_before>>

mvars == <<mpc, max_checks, check, seen_comment_ids, all_responses, reads,
           observed, waits>>

svars == <<spc, command, config_file, reddit, startup_wait, conn_attempt,
           conn_delay, conn_calls, conn_sleeps, conn_out, conn_lastErr,
           connected, cmd_calls, exit_status>>

cvars == <<config_at_start, config_loads, url, dispatched, cmd_outcome>>

ovars == <<op, author_is_me, impl_runs, impl_outcome, gateway_err, mutations,
           item_changed, op_result, post_url, post_content, submits>>

qvars == <<qpc, query, limit, listing, inspected, found>>

vars == <<evars, mvars, svars, cvars, ovars, qvars>>

\* ------------------------------------------------- _execute_with_retry
\* variant: the try statement without its last clause `except Exception`
ExceptClauses_NoCatchAll == <<"RedditAPIException", "ClientException">>

\* the except clauses of the try statement, in order
ExceptClauses == <<"RedditAPIException", "ClientException", "Exception">>

\* `except C` catches an exception of class t: t is C or a subclass of C
Catches(clause, t) == clause = t \/ clause = "Exception"

\* the first except clause that catches t, or "none"
Handler(t) ==
    IF \E i \in 1 .. Len(ExceptClauses) : Catches(ExceptClauses[i], t)
    THEN ExceptClauses[CHOOSE i \in 1 .. Len(ExceptClauses) :
             /\ Catches(ExceptClauses[i], t)
             /\ \A j \in 1 .. (i - 1) : ~Catches(ExceptClauses[j], t)]
    ELSE "none"

\* `"RATE_LIMIT" in str(e) or "429" in str(e)`
IsRateLimit(msg) == Contains(msg, "RATE_LIMIT") \/ Contains(msg, "429")

\* `"401" in str(e) or "unauthorized" in str(e).lower()`
IsUnauthorized(msg) ==
    Contains(msg, "401") \/ Contains(StrLower(msg), "unauthorized")

\* variant: a ClientException without an authorization marker falls through
\* to the generic handler and is retried
Branch_ClientRetried(e) ==
    LET h == Handler(e.type) IN
    CASE h = "RedditAPIException" ->
             IF IsRateLimit(e.msg) THEN "RateLimited" ELSE "ApiError"
      [] h = "ClientException" ->
             IF IsUnauthorized(e.msg) THEN "Unauthorized" ELSE "Transient"
      [] h = "Exception" -> "Transient"
      [] OTHER -> "Unhandled"

\* variant: the generic handler treats an error as fatal once the call has
\* retried, so the class of an error depends on the attempt number
Branch_AttemptDependent(e) ==
    LET h == Handler(e.type) IN
    CASE h = "RedditAPIException" ->
             IF IsRateLimit(e.msg) THEN "RateLimited" ELSE "ApiError"
      [] h = "ClientException" ->
             IF IsUnauthorized(e.msg) THEN "Unauthorized" ELSE "ClientError"
      [] h = "Exception" -> IF attempt = 0 THEN "Transient" ELSE "ClientError"
      [] OTHER -> "Unhandled"

\* the branch of the handlers that an error takes
Branch(e) ==
    LET h == Handler(e.type) IN
    CASE h = "RedditAPIException" ->
             IF IsRateLimit(e.msg) THEN "RateLimited" ELSE "ApiError"
      [] h = "ClientException" ->
             IF IsUnauthorized(e.msg) THEN "Unauthorized" ELSE "ClientError"
      [] h = "Exception" -> "Transient"
      [] OTHER -> "Unhandled"

\* variant: `attempt < max_retries`
HasAttemptsLeft_OffByOne(a, m) == a < m

\* variant: `attempt < max_retries - 2`
HasAttemptsLeft_GivesUpEarly(a, m) == a < m - 2

\* `attempt < max_retries - 1`
HasAttemptsLeft(a, m) == a < m - 1

\* variant: the delay is not doubled
SleepAndRetry_NoBackoff(msgs) ==
    /\ out' = out \o msgs
    /\ sleeps' = Append(sleeps, delay)
    /\ delay' = delay
    /\ attempt' = attempt + 1
    /\ pc' = "loop"
    /\ UNCHANGED <<result, outcome>>

\* variant: the retry does not count as an attempt
SleepAndRetry_NoAdvance(msgs) ==
    /\ out' = out \o msgs
    /\ sleeps' = Append(sleeps, delay)
    /\ delay' = delay * 2
    /\ attempt' = attempt
    /\ pc' = "loop"
    /\ UNCHANGED <<result, outcome>>

\* time.sleep(delay); delay *= 2; next iteration
SleepAndRetry(msgs) ==
    /\ out' = out \o msgs
    /\ sleeps' = Append(sleeps, delay)
    /\ delay' = delay * 2
    /\ attempt' = attempt + 1
    /\ pc' = "loop"
    /\ UNCHANGED <<result, outcome>>

\* variant: `return False`
ReturnNone_False(msgs) ==
    /\ out' = out \o msgs
    /\ result' = "False"
    /\ outcome' = "terminal_failure"
    /\ pc' = "done"
    /\ UNCHANGED <<sleeps, delay, attempt>>

\* variant: the sleep comes before the test of the attempts left, so the
\* last attempt sleeps before it gives up
ReturnNone_AfterSleep(msgs) ==
    /\ out' = out \o msgs
    /\ result' = "None"
    /\ outcome' = "terminal_failure"
    /\ pc' = "done"
    /\ sleeps' = Append(sleeps, delay)
    /\ UNCHANGED <<delay, attempt>>

\* return None
ReturnNone(msgs) ==
    /\ out' = out \o msgs
    /\ result' = "None"
    /\ outcome' = "terminal_failure"
    /\ pc' = "done"
    /\ UNCHANGED <<sleeps, delay, attempt>>

\* variant: the delay is kept in the object, a call goes on from the delay
\* the call before it reached
Execute_DelayCarriedOver(mr, d) ==
    /\ pc \in {"idle", "done"}
    /\ runs < MaxRuns
    /\ runs' = runs + 1
    /\ retried_before' = (retried_before \/ sleeps # <<>>)
    /\ max_retries' = mr
    /\ delay0' = d
    /\ attempt' = 0
    /\ delay' = IF runs > 0 THEN delay ELSE d
    /\ calls' = 0
    /\ sleeps' = <<>>
    /\ out' = <<>>
    /\ lastErr' = NoErr
    /\ lastRet' = "Unset"
    /\ result' = "Unset"
    /\ outcome' = "none"
    /\ pc' = "loop"
    /\ UNCHANGED <<mvars, qvars, svars, cvars, ovars>>

\* a call of _execute_with_retry(func, max_retries=mr, delay=d)
Execute(mr, d) ==
    /\ pc \in {"idle", "done"}
    /\ runs < MaxRuns
    /\ runs' = runs + 1
    /\ retried_before' = (retried_before \/ sleeps # <<>>)
    /\ max_retries' = mr
    /\ delay0' = d
    /\ attempt' = 0
    /\ delay' = d
    /\ calls' = 0
    /\ sleeps' = <<>>
    /\ out' = <<>>
    /\ lastErr' = NoErr
    /\ lastRet' = "Unset"
    /\ result' = "Unset"
    /\ outcome' = "none"
    /\ pc' = "loop"
    /\ UNCHANGED <<mvars, qvars, svars, cvars, ovars>>

\* variant: the value of func is not returned and the loop goes on
CallReturns_NoReturn(v) ==
    /\ pc = "loop"
    /\ attempt < max_retries
    /\ calls' = calls + 1
    /\ lastErr' = NoErr
    /\ lastRet' = v
    /\ attempt' = attempt + 1
    /\ UNCHANGED <<pc, max_retries, delay0, delay, sleeps, out, result,
                   outcome, runs, retried_before>>
    /\ UNCHANGED <<mvars, qvars, svars, cvars, ovars>>

\* one iteration in which func returns v: `return func(*args, **kwargs)`
CallReturns(v) ==
    /\ pc = "loop"
    /\ attempt < max_retries
    /\ calls' = calls + 1
    /\ lastErr' = NoErr
    /\ lastRet' = v
    /\ result' = v
    /\ outcome' = "returned_value"
    /\ pc' = "done"
    /\ UNCHANGED <<max_retries, delay0, attempt, delay, sleeps, out, runs,
                   retried_before>>
    /\ UNCHANGED <<mvars, qvars, svars, cvars, ovars>>

\* one iteration in which func raises e: the except clauses
CallRaises(e) ==
    /\ pc = "loop"
    /\ attempt < max_retries
    /\ calls' = calls + 1
    /\ lastErr' = e
    /\ lastRet' = "Unset"
    /\ LET b == Branch(e) IN
       CASE b = "RateLimited" ->
                IF HasAttemptsLeft(attempt, max_retries)
                THEN SleepAndRetry(<<"rate_limited_waiting">>)
                ELSE ReturnNone(<<"rate_limited_waiting",
                                  "rate_limit_exceeded">>)
         [] b = "ApiError" -> ReturnNone(<<"api_error">>)
         [] b = "Unauthorized" -> ReturnNone(<<"auth_failed">>)
         [] b = "ClientError" -> ReturnNone(<<"client_error">>)
         [] b = "Transient" ->
                IF HasAttemptsLeft(attempt, max_retries)
                THEN SleepAndRetry(<<"error", "retrying">>)
                ELSE ReturnNone(<<"error">>)
         [] OTHER ->
                /\ outcome' = "raised"
                /\ pc' = "done"
                /\ UNCHANGED <<out, sleeps, delay, attempt, result>>
    /\ UNCHANGED <<max_retries, delay0, runs, retried_before>>
    /\ UNCHANGED <<mvars, qvars, svars, cvars, ovars>>

\* variant: an empty loop is reported as an error of the caller
LoopExit_Raises ==
    /\ pc = "loop"
    /\ attempt >= max_retries
    /\ outcome' = "raised"
    /\ pc' = "done"
    /\ UNCHANGED <<out, sleeps, delay, attempt, result>>
    /\ UNCHANGED <<max_retries, delay0, calls, lastErr, lastRet, runs,
                   retried_before>>
    /\ UNCHANGED <<mvars, qvars, svars, cvars, ovars>>

\* the for loop ends without a return: the final `return None`
LoopExit ==
    /\ pc = "loop"
    /\ attempt >= max_retries
    /\ ReturnNone(<<>>)
    /\ UNCHANGED <<max_retries, delay0, calls, lastErr, lastRet, runs,
                   retried_before>>
    /\ UNCHANGED <<mvars, qvars, svars, cvars, ovars>>

\* ------------------------------------------- properties of the executor

\* C1: an error of a gateway type (RedditAPIException or ClientException)
\* that carries no rate-limit marker is never retried: the invocation that
\* raised it is the last one, no sleep follows it and the executor returns
\* the terminal failure; when it is raised by the first invocation there is
\* exactly one invocation and no sleep, whatever max_retries is.
C1_FatalKindsNeverRetried ==
    (/\ lastErr # NoErr
     /\ lastErr.type \in {"RedditAPIException", "ClientException"}
     /\ ~Contains(lastErr.msg, "RATE_LIMIT")
     /\ ~Contains(lastErr.msg, "429"))
    => /\ pc = "done"
       /\ outcome = "terminal_failure"
       /\ result = "None"
       /\ Len(sleeps) = calls - 1
       /\ attempt = calls - 1
       /\ (attempt = 0 => calls = 1 /\ sleeps = <<>>)

C1_Witness ==
    /\ pc = "done"
    /\ max_retries = MaxRetries
    /\ lastErr.type = "ClientException"
    /\ lastErr.msg = {"401", "unauthorized"}
    /\ calls = 1
    /\ sleeps = <<>>
    /\ outcome = "terminal_failure"

\* C2: with max_retries = N > 1 the operation is invoked at most N times,
\* the k-th sleep is delay0 * 2^(k-1) whatever mix of rate-limit and transient
\* errors caused the retries, and when the N-th invocation fails the executor
\* returns the terminal failure.
C2_BoundedExponentialBackoff ==
    max_retries > 1 =>
       /\ calls <= max_retries
       /\ \A k \in 1 .. Len(sleeps) : sleeps[k] = delay0 * (2 ^ (k - 1))
       /\ (calls = max_retries /\ lastErr # NoErr)
              => pc = "done" /\ outcome = "terminal_failure"
                 /\ result = "None"

C2_Witness ==
    /\ pc = "done"
    /\ max_retries = 4
    /\ delay0 = 5
    /\ calls = 4
    /\ sleeps = <<5, 10, 20>>
    /\ out = <<"rate_limited_waiting", "error", "retrying",
               "rate_limited_waiting", "error">>
    /\ outcome = "terminal_failure"

\* C3: with max_retries = 1 any error gives exactly one invocation, no sleep
\* and the terminal failure at once.
C3_SingleAttemptNoRetry ==
    (max_retries = 1 /\ lastErr # NoErr)
    => /\ calls = 1
       /\ sleeps = <<>>
       /\ pc = "done"
       /\ outcome = "terminal_failure"
       /\ result = "None"

C3_Witness ==
    /\ max_retries = 1
    /\ lastErr.type = "Exception"
    /\ calls = 1
    /\ sleeps = <<>>
    /\ outcome = "terminal_failure"

\* C4: as soon as an invocation of func returns, its value is the result of
\* the executor and func is not invoked again: after j - 1 retried failures
\* and a success there are j invocations and j - 1 sleeps, the first of them
\* equal to the initial delay.
C4_SuccessReturnsAtOnce ==
    lastRet # "Unset"
    => /\ pc = "done"
       /\ outcome = "returned_value"
       /\ result = lastRet
       /\ calls = attempt + 1
       /\ calls <= max_retries
       /\ Len(sleeps) = calls - 1
       /\ (calls >= 2 => sleeps[1] = delay0)

C4_Witness ==
    /\ pc = "done"
    /\ max_retries = 4
    /\ calls = 2
    /\ sleeps = <<delay0>>
    /\ out = <<"error", "retrying">>
    /\ lastRet = "val1"
    /\ result = "val1"

\* C5: no exception raised by func leaves the executor: every call ends by
\* returning the value of func or the terminal-failure sentinel.
C5_NeverPropagates ==
    /\ outcome # "raised"
    /\ pc = "done" => outcome \in {"returned_value", "terminal_failure"}
    /\ (pc = "done" /\ outcome = "terminal_failure") => result = "None"

C5_Witness ==
    /\ pc = "done"
    /\ lastErr.type = "Exception"
    /\ calls = max_retries
    /\ calls >= 2
    /\ outcome = "terminal_failure"

\* C6: rule 1 has priority over every other rule and over the error type: a
\* run can end in failure on an error whose message contains "RATE_LIMIT" or
\* "429" only when the attempts are exhausted, after max_retries invocations
\* and sleeps of delay0, 2*delay0, ... (3 invocations and delays 1 then 2
\* for max_retries = 3 and an initial delay of 1).
C6_RateLimitMarkerHasPriority ==
    (/\ pc = "done"
     /\ outcome = "terminal_failure"
     /\ lastErr # NoErr
     /\ (Contains(lastErr.msg, "RATE_LIMIT") \/ Contains(lastErr.msg, "429")))
    => /\ calls = max_retries
       /\ Len(sleeps) = max_retries - 1
       /\ \A k \in 1 .. Len(sleeps) : sleeps[k] = delay0 * (2 ^ (k - 1))

\* C7: an error whose message contains "401" or "unauthorized" and no
\* rate-limit marker is never retried, whatever its type: the invocation that
\* raised it is the last one, no sleep follows it and the executor returns
\* the terminal failure, for every max_retries.
C7_UnauthorizedAnyTypeNeverRetried ==
    (/\ lastErr # NoErr
     /\ (Contains(lastErr.msg, "401")
            \/ Contains(StrLower(lastErr.msg), "unauthorized"))
     /\ ~Contains(StrLower(lastErr.msg), "rate_limit")
     /\ ~Contains(lastErr.msg, "429"))
    => /\ pc = "done"
       /\ outcome = "terminal_failure"
       /\ Len(sleeps) = calls - 1

\* C8 as stated: the returned value names the classification of the error
\* that ended the run, and no successful result is mistaken for a failure.
C8_ResultIdentifiesKind ==
    pc = "done" =>
       /\ (outcome = "terminal_failure" /\ lastErr # NoErr)
              => result = (CASE Branch(lastErr) = "RateLimited" -> "RateLimited"
                             [] Branch(lastErr) = "Unauthorized" -> "Unauthorized"
                             [] Branch(lastErr) = "Transient" -> "TransientError"
                             [] OTHER -> "ClientError")
       /\ outcome = "returned_value" => result # "None"

\* C8 amended: every terminal failure returns the same sentinel None; the
\* classification of the error that ended the run is told by the last message
\* printed, not by the returned value; a returned value other than None is
\* always the value of a successful invocation.
C8_SentinelAndMessage ==
    pc = "done" =>
       /\ outcome = "terminal_failure" => result = "None"
       /\ (outcome = "terminal_failure" /\ lastErr # NoErr)
              => out[Len(out)] =
                     (CASE Branch(lastErr) = "RateLimited" -> "rate_limit_exceeded"
                        [] Branch(lastErr) = "Unauthorized" -> "auth_failed"
                        [] Branch(lastErr) = "ApiError" -> "api_error"
                        [] Branch(lastErr) = "ClientError" -> "client_error"
                        [] OTHER -> "error")
       /\ result # "None" => outcome = "returned_value" /\ result = lastRet

C8_Witness ==
    /\ pc = "done"
    /\ outcome = "terminal_failure"
    /\ result = "None"
    /\ Branch(lastErr) = "RateLimited"
    /\ calls = 3
    /\ out[Len(out)] = "rate_limit_exceeded"

\* C14: every failure path of the executor and of the startup connectivity
\* check prints, before it ends, a message that tells the class of the
\* failure, and for an authorization failure also the hint to check the
\* credentials.
C14_EveryFailureEmitsMessage ==
    /\ (pc = "done" /\ outcome = "terminal_failure" /\ lastErr # NoErr)
           => /\ \E i \in 1 .. Len(out) :
                     out[i] \in {"rate_limit_exceeded", "auth_failed",
                                 "api_error", "client_error", "error"}
              /\ (\E i \in 1 .. Len(out) : out[i] = "auth_failed")
                     => \E i \in 1 .. Len(out) : out[i] = "check_credentials"
    /\ (spc = "exited" /\ conn_lastErr # NoErr)
           => /\ \E i \in 1 .. Len(conn_out) :
                     conn_out[i] \in {"rate_limit_exceeded", "auth_failed",
                                      "api_error", "client_error", "error"}
              /\ (\E i \in 1 .. Len(conn_out) : conn_out[i] = "auth_failed")
                     => \E i \in 1 .. Len(conn_out) :
                            conn_out[i] = "check_credentials"

\* C17: the class of an error depends on the error only: when an invocation
\* raises the error that the invocation before it raised, at a later attempt
\* and with a larger delay, the executor prints the message of the same class
\* as before and decides in the same way, retrying while attempts remain and
\* stopping only when they are used up.
C17_SameErrorSameClass ==
    [][(/\ pc = "loop"
        /\ lastErr # NoErr
        /\ calls' = calls + 1
        /\ lastErr' = lastErr)
       => LET before == IF out[Len(out)] = "retrying"
                        THEN out[Len(out) - 1]
                        ELSE out[Len(out)]
          IN /\ Len(out') > Len(out)
             /\ out'[Len(out) + 1] = before
             /\ attempt < max_retries - 1
                    => pc' = "loop" /\ attempt' > attempt /\ delay' > delay
             /\ attempt >= max_retries - 1
                    => pc' = "done" /\ outcome' = "terminal_failure"]_vars

C17_Witness ==
    /\ pc = "done"
    /\ max_retries = 3
    /\ calls = 3
    /\ lastErr = [type |-> "Exception", msg |-> {"401"}]
    /\ out = <<"error", "retrying", "error", "retrying", "error">>
    /\ sleeps = <<delay0, 2 * delay0>>

\* C19: the marker tests do not depend on the letter case: an error of the
\* type tested for rate limits whose message contains "rate_limit" in any
\* case is retried while attempts remain, and an error of the type tested
\* for authorization whose message contains "unauthorized" in any case ends
\* the run with the authentication message.
C19_MarkersCaseInsensitive ==
    /\ (/\ lastErr # NoErr
        /\ lastErr.type = "RedditAPIException"
        /\ Contains(StrLower(lastErr.msg), "rate_limit")
        /\ calls < max_retries)
           => pc = "loop" /\ Len(sleeps) = calls
    /\ (/\ lastErr # NoErr
        /\ lastErr.type = "ClientException"
        /\ Contains(StrLower(lastErr.msg), "unauthorized"))
           => pc = "done" /\ out[Len(out)] = "auth_failed"

\* C20: an error of a gateway type whose message carries no rate-limit and no
\* authorization marker ends the run at the invocation that raised it, after
\* one invocation when it is the first, with the client or API error message;
\* an exception of any other type without such a marker is retried while
\* attempts remain and ends the run only when invocation number max_retries
\* fails.
C20_ClientErrorAndTransient ==
    LET unmarked == /\ lastErr # NoErr
                    /\ ~Contains(StrLower(lastErr.msg), "rate_limit")
                    /\ ~Contains(lastErr.msg, "429")
                    /\ ~Contains(lastErr.msg, "401")
                    /\ ~Contains(StrLower(lastErr.msg), "unauthorized")
    IN /\ (unmarked /\ lastErr.type \in {"RedditAPIException",
                                          "ClientException"})
              => /\ pc = "done"
                 /\ outcome = "terminal_failure"
                 /\ out[Len(out)] \in {"api_error", "client_error"}
                 /\ Len(sleeps) = calls - 1
                 /\ (attempt = 0 => calls = 1)
       /\ (unmarked /\ lastErr.type = "Exception")
              => /\ calls < max_retries
                        => pc = "loop" /\ Len(sleeps) = calls
                 /\ calls = max_retries
                        => /\ pc = "done"
                           /\ outcome = "terminal_failure"
                           /\ Len(sleeps) = max_retries - 1
                 /\ calls <= max_retries

C20_Witness ==
    /\ pc = "done"
    /\ max_retries = 3
    /\ calls = 3
    /\ lastErr = [type |-> "Exception", msg |-> {}]
    /\ outcome = "terminal_failure"
    /\ sleeps = <<delay0, 2 * delay0>>
    /\ out[Len(out)] = "error"


\* C23: every run of the executor ends: it returns after at most max_retries
\* invocations of the wrapped function (none when max_retries <= 0), given
\* that every invocation and every sleep ends; no run retries for ever.
C23_ExecutorTerminates ==
    LET bounded == /\ calls <= (IF max_retries > 0 THEN max_retries ELSE 0)
                   /\ Len(sleeps) <= calls
                   /\ (pc = "done") => (result # "Unset")
    IN ([]bounded) /\ (pc = "loop" ~> pc = "done")

C23_Witness ==
    /\ pc = "done"
    /\ max_retries = MaxRetries
    /\ calls = MaxRetries
    /\ Len(sleeps) = MaxRetries - 1
    /\ lastErr.type = "Exception"
    /\ result = "None"

\* C27: the backoff state is local to one call of the executor: every call
\* starts with attempt 0 and the delay it was given, whatever earlier calls
\* reached, the delay of a call is its initial delay doubled once per sleep
\* of that call, and a call does not change its max_retries and initial
\* delay.
C27_BackoffStateIsLocal ==
    [][/\ runs' = runs + 1
           => (attempt' = 0 /\ delay' = delay0' /\ sleeps' = <<>>
               /\ calls' = 0)
       /\ runs' = runs
           => (max_retries' = max_retries /\ delay0' = delay0)
       /\ delay' = delay0' * (2 ^ Len(sleeps'))
       /\ attempt' <= calls']_vars

C27_Witness ==
    /\ runs = 2
    /\ retried_before
    /\ delay0 = 1
    /\ calls = 2
    /\ sleeps = <<1>>
    /\ delay = 2
    /\ pc = "done"

\* C28: a call with max_retries <= 0 never invokes the wrapped function,
\* sleeps never, prints nothing and returns the failure sentinel None; the
\* call is accepted, no error is raised for the value.
C28_NoAttemptsReturnsSentinel ==
    (runs >= 1 /\ max_retries <= 0)
    => /\ calls = 0
       /\ sleeps = <<>>
       /\ out = <<>>
       /\ lastErr = NoErr
       /\ outcome \in {"none", "terminal_failure"}
       /\ pc = "done" => result = "None" /\ outcome = "terminal_failure"

C28_Witness ==
    /\ max_retries = -1
    /\ pc = "done"
    /\ calls = 0
    /\ out = <<>>
    /\ result = "None"

\* ------------------------------------------------------- monitor_post
\* variant: the test `comment.id not in seen_comment_ids` is dropped
NewResponses_NoDedup(comments, seen) == comments

\* the new_responses of one check: the comments of the list, in order, whose
\* id is not in seen_comment_ids, each id being added to the set when taken
RECURSIVE NewResponses(_, _)
NewResponses(comments, seen) ==
    IF comments = <<>> THEN <<>>
    ELSE IF Head(comments) \notin seen
         THEN <<Head(comments)>>
                  \o NewResponses(Tail(comments), seen \cup {Head(comments)})
         ELSE NewResponses(Tail(comments), seen)

\* a call of monitor_post(submission, check_interval, mc)
MonitorStart(mc) ==
    /\ mpc = "idle"
    /\ max_checks' = mc
    /\ check' = 0
    /\ seen_comment_ids' = {}
    /\ all_responses' = <<>>
    /\ reads' = <<>>
    /\ observed' = <<>>
    /\ waits' = 0
    /\ mpc' = "loop"
    /\ UNCHANGED <<evars, svars, cvars, ovars, qvars>>

\* variant: the wait is not skipped after the last check
MonitorCheck_AlwaysSleeps(comments) ==
    /\ mpc = "loop"
    /\ check < max_checks
    /\ LET new_responses == NewResponses(comments, seen_comment_ids) IN
       /\ all_responses' = all_responses \o new_responses
       /\ seen_comment_ids' = seen_comment_ids
              \cup {new_responses[i] : i \in 1 .. Len(new_responses)}
    /\ reads' = Append(reads, comments)
    /\ observed' = observed \o comments
    /\ waits' = waits + 1
    /\ check' = check + 1
    /\ UNCHANGED <<mpc, max_checks>>
    /\ UNCHANGED <<evars, svars, cvars, ovars, qvars>>

\* one check in which the submission's comments are the list `comments`
MonitorCheck(comments) ==
    /\ mpc = "loop"
    /\ check < max_checks
    /\ LET new_responses == NewResponses(comments, seen_comment_ids) IN
       /\ all_responses' = all_responses \o new_responses
       /\ seen_comment_ids' = seen_comment_ids
              \cup {new_responses[i] : i \in 1 .. Len(new_responses)}
    /\ reads' = Append(reads, comments)
    /\ observed' = observed \o comments
    /\ waits' = IF check < max_checks - 1 THEN waits + 1 ELSE waits
    /\ check' = check + 1
    /\ UNCHANGED <<mpc, max_checks>>
    /\ UNCHANGED <<evars, svars, cvars, ovars, qvars>>

\* one check in which submission.comments.replace_more raises: monitor_post
\* has no try statement, the exception leaves it
MonitorReadRaises ==
    /\ mpc = "loop"
    /\ check < max_checks
    /\ mpc' = "raised"
    /\ UNCHANGED <<max_checks, check, seen_comment_ids, all_responses, reads,
                   observed, waits>>
    /\ UNCHANGED <<evars, svars, cvars, ovars, qvars>>

\* the for loop ends: `return all_responses`
MonitorReturn ==
    /\ mpc = "loop"
    /\ check >= max_checks
    /\ mpc' = "done"
    /\ UNCHANGED <<max_checks, check, seen_comment_ids, all_responses, reads,
                   observed, waits>>
    /\ UNCHANGED <<evars, svars, cvars, ovars, qvars>>

\* C9: the collected list holds every comment observed in any check exactly
\* once, in the order of first observation; a comment collected once is never
\* collected again, also when it disappears and comes back; the reads <<A>>,
\* <<A, B>>, <<A, B, C>> give exactly <<A, B, C>>.
C9_MonitorDeduplicates ==
    LET first(x) == CHOOSE k \in 1 .. Len(observed) :
                        /\ observed[k] = x
                        /\ \A m \in 1 .. (k - 1) : observed[m] # x
        n == Len(all_responses)
    IN /\ \A i, j \in 1 .. n : i # j => all_responses[i] # all_responses[j]
       /\ {all_responses[i] : i \in 1 .. n}
              = {observed[k] : k \in 1 .. Len(observed)}
       /\ \A i, j \in 1 .. n :
              i < j => first(all_responses[i]) < first(all_responses[j])
       /\ (mpc = "done" /\ reads = <<(<<"A">>), <<"A", "B">>, <<"A", "B", "C">>>>)
              => all_responses = <<"A", "B", "C">>

C9_Witness ==
    /\ mpc = "done"
    /\ max_checks = 3
    /\ reads = <<<<"B", "A">>, <<"C">>, <<"A", "C", "B">>>>
    /\ all_responses = <<"B", "A", "C">>

\* C21: monitor_post is bounded: when it returns with max_checks = M >= 1 it
\* has read the comments exactly M times and waited exactly M - 1 times, one
\* wait between consecutive checks and none after the last; with M <= 0 it
\* reads nothing, waits never and returns the empty list; and when every read
\* ends, the call ends.
C21_MonitorBounded ==
    LET bounded ==
            /\ (mpc = "done" /\ max_checks >= 1)
                   => (Len(reads) = max_checks /\ waits = max_checks - 1)
            /\ (mpc = "done" /\ max_checks <= 0)
                   => (reads = <<>> /\ waits = 0 /\ all_responses = <<>>)
            /\ (mpc \in {"loop", "raised"})
                   => (/\ Len(reads) = check
                       /\ waits = IF check < max_checks \/ check = 0
                                  THEN check ELSE check - 1)
    IN ([]bounded) /\ (mpc = "loop" ~> mpc \in {"done", "raised"})

C21_Witness ==
    /\ mpc = "done"
    /\ max_checks = 3
    /\ Len(reads) = 3
    /\ waits = 2

\* ------------------------- main, load_config, _test_connection_with_retry
\* sys.exit(code)
Exit(code) ==
    /\ exit_status' = code
    /\ spc' = "exited"

\* main up to the construction of RedditCLI, for the command cmd and the URL
\* argument u of the commands that have one: without a command the help is
\* printed and main returns
Main(cmd, u) ==
    /\ spc = "idle"
    /\ (u = NoUrl) <=> (cmd \in {"none", "post"})
    /\ command' = cmd
    /\ url' = u
    /\ IF cmd = "none" THEN Exit(0)
       ELSE spc' = "load_config" /\ UNCHANGED exit_status
    /\ UNCHANGED <<config_file, reddit, startup_wait, conn_attempt,
                   conn_delay, conn_calls, conn_sleeps, conn_out,
                   conn_lastErr, connected, cmd_calls>>
    /\ UNCHANGED <<config_at_start, config_loads, dispatched, cmd_outcome>>
    /\ UNCHANGED <<evars, mvars, qvars, ovars>>

\* variant: no sys.exit(1) after the template is written, the template is
\* loaded as if it were the user's configuration
LoadConfig_NoExitAfterTemplate ==
    /\ spc = "load_config"
    /\ IF config_file = "absent"
       THEN /\ config_file' = "template"
            /\ reddit' = "session"
            /\ startup_wait' = StartupWait
            /\ spc' = "connect"
            /\ UNCHANGED exit_status
       ELSE IF config_file \in {"invalid_json", "missing_key"}
       THEN /\ Exit(1)
            /\ UNCHANGED <<config_file, reddit, startup_wait>>
       ELSE /\ reddit' = "session"
            /\ startup_wait' = StartupWait
            /\ spc' = "connect"
            /\ UNCHANGED <<config_file, exit_status>>
    /\ config_loads' = config_loads + 1
    /\ UNCHANGED <<command, conn_attempt, conn_delay, conn_calls,
                   conn_sleeps, conn_out, conn_lastErr, connected, cmd_calls>>
    /\ UNCHANGED <<config_at_start, url, dispatched, cmd_outcome>>
    /\ UNCHANGED <<evars, mvars, qvars, ovars>>

\* variant: a missing key is read with a default (config.get) and the
\* session is created all the same
LoadConfig_MissingKeyDefaulted ==
    /\ spc = "load_config"
    /\ IF config_file = "absent"
       THEN /\ config_file' = "template"
            /\ Exit(1)
            /\ UNCHANGED <<reddit, startup_wait>>
       ELSE IF config_file = "invalid_json"
       THEN /\ Exit(1)
            /\ UNCHANGED <<config_file, reddit, startup_wait>>
       ELSE /\ reddit' = "session"
            /\ startup_wait' = StartupWait
            /\ spc' = "connect"
            /\ UNCHANGED <<config_file, exit_status>>
    /\ config_loads' = config_loads + 1
    /\ UNCHANGED <<command, conn_attempt, conn_delay, conn_calls,
                   conn_sleeps, conn_out, conn_lastErr, connected, cmd_calls>>
    /\ UNCHANGED <<config_at_start, url, dispatched, cmd_outcome>>
    /\ UNCHANGED <<evars, mvars, qvars, ovars>>

\* variant: a file that cannot be loaded is replaced by the template
LoadConfig_OverwritesInvalid ==
    /\ spc = "load_config"
    /\ IF config_file = "absent"
       THEN /\ config_file' = "template"
            /\ Exit(1)
            /\ UNCHANGED <<reddit, startup_wait>>
       ELSE IF config_file \in {"invalid_json", "missing_key"}
       THEN /\ config_file' = "template"
            /\ Exit(1)
            /\ UNCHANGED <<reddit, startup_wait>>
       ELSE /\ reddit' = "session"
            /\ startup_wait' = StartupWait
            /\ spc' = "connect"
            /\ UNCHANGED <<config_file, exit_status>>
    /\ config_loads' = config_loads + 1
    /\ UNCHANGED <<command, conn_attempt, conn_delay, conn_calls,
                   conn_sleeps, conn_out, conn_lastErr, connected, cmd_calls>>
    /\ UNCHANGED <<config_at_start, url, dispatched, cmd_outcome>>
    /\ UNCHANGED <<evars, mvars, qvars, ovars>>

\* load_config up to the call of _test_connection_with_retry: a missing file
\* is replaced by the template and the process exits; json.load of an
\* unparseable file and config[key] of a missing key raise, and the handler
\* exits; otherwise the session is made and the startup wait is slept
LoadConfig ==
    /\ spc = "load_config"
    /\ IF config_file = "absent"
       THEN /\ config_file' = "template"
            /\ Exit(1)
            /\ UNCHANGED <<reddit, startup_wait>>
       ELSE IF config_file \in {"invalid_json", "missing_key"}
       THEN /\ Exit(1)
            /\ UNCHANGED <<config_file, reddit, startup_wait>>
       ELSE /\ reddit' = "session"
            /\ startup_wait' = StartupWait
            /\ spc' = "connect"
            /\ UNCHANGED <<config_file, exit_status>>
    /\ config_loads' = config_loads + 1
    /\ UNCHANGED <<command, conn_attempt, conn_delay, conn_calls,
                   conn_sleeps, conn_out, conn_lastErr, connected, cmd_calls>>
    /\ UNCHANGED <<config_at_start, url, dispatched, cmd_outcome>>
    /\ UNCHANGED <<evars, mvars, qvars, ovars>>

\* variant: the delay of the connectivity check is not doubled
ConnSleepAndRetry_NoBackoff(msgs) ==
    /\ conn_out' = conn_out \o msgs
    /\ conn_sleeps' = Append(conn_sleeps, conn_delay)
    /\ conn_delay' = conn_delay
    /\ conn_attempt' = conn_attempt + 1
    /\ UNCHANGED <<spc, exit_status>>

\* time.sleep(delay); delay *= 2; next iteration
ConnSleepAndRetry(msgs) ==
    /\ conn_out' = conn_out \o msgs
    /\ conn_sleeps' = Append(conn_sleeps, conn_delay)
    /\ conn_delay' = conn_delay * 2
    /\ conn_attempt' = conn_attempt + 1
    /\ UNCHANGED <<spc, exit_status>>

\* variant: `return False` in place of sys.exit(1)
ConnFatal_ReturnFalse(msgs) ==
    /\ conn_out' = conn_out \o msgs
    /\ spc' = "command"
    /\ UNCHANGED <<exit_status, conn_sleeps, conn_delay, conn_attempt>>

\* sys.exit(1) in _test_connection_with_retry: SystemExit is not an
\* Exception, the try statement of load_config lets it through
ConnFatal(msgs) ==
    /\ conn_out' = conn_out \o msgs
    /\ Exit(1)
    /\ UNCHANGED <<conn_sleeps, conn_delay, conn_attempt>>

\* one iteration in which self.reddit.user.me() returns: `return True`, and
\* load_config and the constructor return
ConnReturns ==
    /\ spc = "connect"
    /\ conn_attempt < DefaultMaxRetries
    /\ conn_calls' = conn_calls + 1
    /\ conn_lastErr' = NoErr
    /\ conn_out' = Append(conn_out, "connected")
    /\ connected' = TRUE
    /\ spc' = "command"
    /\ UNCHANGED <<command, config_file, reddit, startup_wait, conn_attempt,
                   conn_delay, conn_sleeps, cmd_calls, exit_status>>
    /\ UNCHANGED <<evars, mvars, qvars, ovars, cvars>>

\* one iteration in which self.reddit.user.me() raises e
ConnRaises(e) ==
    /\ spc = "connect"
    /\ conn_attempt < DefaultMaxRetries
    /\ conn_calls' = conn_calls + 1
    /\ conn_lastErr' = e
    /\ LET b == Branch(e) IN
       CASE b = "RateLimited" ->
                IF HasAttemptsLeft(conn_attempt, DefaultMaxRetries)
                THEN ConnSleepAndRetry(<<"rate_limited_waiting">>)
                ELSE ConnFatal(<<"rate_limited_waiting",
                                 "rate_limit_exceeded">>)
         [] b = "ApiError" -> ConnFatal(<<"api_error">>)
         [] b = "Unauthorized" ->
                ConnFatal(<<"auth_failed", "check_credentials">>)
         [] b = "ClientError" -> ConnFatal(<<"client_error">>)
         [] OTHER ->
                IF HasAttemptsLeft(conn_attempt, DefaultMaxRetries)
                THEN ConnSleepAndRetry(<<"unexpected_error", "retrying">>)
                ELSE ConnFatal(<<"unexpected_error">>)
    /\ UNCHANGED <<command, config_file, reddit, startup_wait, connected,
                   cmd_calls>>
    /\ UNCHANGED <<evars, mvars, qvars, ovars, cvars>>

\* the operation that the branch of main for cmd calls; upvote and downvote
\* test `"comment" in args.url`
Dispatch(cmd, u) ==
    CASE cmd = "post" -> "post_to_subreddit"
      [] cmd = "responses" -> "get_post_responses"
      [] cmd = "monitor" -> "monitor_post"
      [] cmd = "delete" -> "delete_post"
      [] cmd = "upvote" ->
             IF IsSubstring(CommentWord, u.text) THEN "upvote_comment"
             ELSE "upvote_post"
      [] cmd = "downvote" ->
             IF IsSubstring(CommentWord, u.text) THEN "downvote_comment"
             ELSE "downvote_post"
      [] OTHER -> "none"

\* an error of the gateway inside the operation is caught before it reaches
\* main: by the executor, or by the try statement of get_post_responses;
\* monitor_post has no try statement and main has none around it
CatchesErrors(operation) == operation # "monitor_post"

\* the branch of main for args.command: the command's operation is started
\* on the gateway; `fails` tells whether a gateway call inside it (for
\* monitor: a read inside the polling loop) ends in failure.  A failure that
\* is caught is printed and main returns; an exception that reaches main
\* ends the process with a traceback and exit status 1
RunCommand(fails) ==
    /\ spc = "command"
    /\ cmd_calls' = cmd_calls + 1
    /\ dispatched' = Dispatch(command, url)
    /\ IF ~fails
       THEN cmd_outcome' = "success" /\ Exit(0)
       ELSE IF CatchesErrors(Dispatch(command, url))
       THEN cmd_outcome' = "failure_reported" /\ Exit(0)
       ELSE cmd_outcome' = "uncaught_exception" /\ Exit(1)
    /\ UNCHANGED <<command, config_file, reddit, startup_wait, conn_attempt,
                   conn_delay, conn_calls, conn_sleeps, conn_out,
                   conn_lastErr, connected>>
    /\ UNCHANGED <<config_at_start, config_loads, url>>
    /\ UNCHANGED <<evars, mvars, qvars, ovars>>

\* C10: no command operation is started on the gateway unless the
\* connectivity check has succeeded, and a check that ends in failure, of
\* whatever kind, ends the process with exit status 1 and no command run.
C10_StartupCheckIsFatal ==
    /\ cmd_calls > 0 => connected
    /\ spc = "command" => connected
    /\ (conn_lastErr # NoErr /\ spc # "connect")
           => /\ spc = "exited"
              /\ exit_status = 1
              /\ cmd_calls = 0
              /\ ~connected

C10_Witness ==
    /\ spc = "exited"
    /\ exit_status = 1
    /\ command = "post"
    /\ conn_lastErr.type = "Exception"
    /\ conn_calls = DefaultMaxRetries
    /\ conn_sleeps = <<5, 10>>
    /\ cmd_calls = 0

\* C11: when the configuration file does not exist at startup, load_config
\* writes the template to that path and the process exits with status 1; no
\* session is created, and no connectivity check, startup wait or gateway
\* call happens in that run.
C11_MissingConfigWritesTemplate ==
    config_at_start = "absent" =>
       /\ reddit = "None"
       /\ conn_calls = 0
       /\ cmd_calls = 0
       /\ startup_wait = 0
       /\ ~connected
       /\ config_loads > 0
              => /\ config_file = "template"
                 /\ spc = "exited"
                 /\ exit_status = 1

C11_Witness ==
    /\ config_at_start = "absent"
    /\ command = "post"
    /\ config_loads = 1
    /\ config_file = "template"
    /\ spc = "exited"
    /\ exit_status = 1

\* C12: after a successful startup, a failure of the command's operation is
\* reported and does not abort the process: the exit status is 0, for every
\* command, the polling loop of monitor included.
C12_CommandFailureExitsZero ==
    (connected /\ cmd_outcome \notin {"none", "success"})
    => /\ cmd_outcome = "failure_reported"
       /\ exit_status = 0

\* C13: a configuration file that is missing, unparseable or without a
\* required key is fatal and not retried: load_config runs once, the process
\* exits with status 1, and there is no session, connectivity check or
\* command operation.
C13_InvalidConfigIsFatal ==
    /\ config_loads <= 1
    /\ config_at_start \in {"absent", "invalid_json", "missing_key"}
           => /\ reddit = "None"
              /\ conn_calls = 0
              /\ cmd_calls = 0
              /\ spc \notin {"connect", "command"}
              /\ config_loads > 0 => spc = "exited" /\ exit_status = 1

C13_Witness ==
    /\ config_at_start = "missing_key"
    /\ command = "delete"
    /\ config_loads = 1
    /\ spc = "exited"
    /\ exit_status = 1
    /\ conn_calls = 0

\* C16: upvote and downvote call the post operation for a URL that designates
\* a post and the comment operation for a URL that designates a comment.
C16_VoteDispatchByUrlKind ==
    (command \in {"upvote", "downvote"} /\ dispatched # "none")
    => /\ (url.designates = "post" /\ command = "upvote")
              => dispatched = "upvote_post"
       /\ (url.designates = "post" /\ command = "downvote")
              => dispatched = "downvote_post"
       /\ (url.designates = "comment" /\ command = "upvote")
              => dispatched = "upvote_comment"
       /\ (url.designates = "comment" /\ command = "downvote")
              => dispatched = "downvote_comment"

\* C22: the startup connectivity check, with max_retries 3 and delay 5,
\* decides as the executor does: a rate-limited API error and an exception that
\* is not of a gateway type are retried, with sleeps of 5 then 10 seconds and
\* at most 3 calls of the identity query; an authorization failure, a client
\* error and an API error without a rate-limit marker end the process at the
\* call that raised them, with no sleep after it (one call and no sleep when
\* it is the first); the first call that succeeds ends the check.
C22_StartupCheckRetries ==
    LET e == conn_lastErr
        retried == \/ /\ e.type = "RedditAPIException"
                      /\ (Contains(e.msg, "RATE_LIMIT") \/ Contains(e.msg, "429"))
                   \/ e.type = "Exception"
    IN /\ conn_calls <= 3
       /\ Len(conn_sleeps) <= 2
       /\ \A k \in 1 .. Len(conn_sleeps) : conn_sleeps[k] = 5 * (2 ^ (k - 1))
       /\ (e # NoErr /\ ~retried)
              => /\ spc = "exited"
                 /\ exit_status = 1
                 /\ Len(conn_sleeps) = conn_calls - 1
                 /\ (conn_attempt = 0 => conn_calls = 1 /\ conn_sleeps = <<>>)
       /\ (e # NoErr /\ retried /\ conn_calls < 3)
              => spc = "connect" /\ Len(conn_sleeps) = conn_calls
       /\ (e # NoErr /\ retried /\ conn_calls = 3)
              => /\ spc = "exited"
                 /\ exit_status = 1
                 /\ conn_sleeps = <<5, 10>>
       /\ connected
              => /\ e = NoErr
                 /\ spc \in {"command", "exited"}
                 /\ Len(conn_sleeps) = conn_calls - 1

C22_Witness ==
    /\ spc = "exited"
    /\ exit_status = 1
    /\ conn_calls = 3
    /\ conn_sleeps = <<5, 10>>
    /\ conn_lastErr = [type |-> "RedditAPIException", msg |-> {"429"}]
    /\ conn_out = <<"unexpected_error", "retrying", "rate_limited_waiting",
                    "rate_limited_waiting", "rate_limit_exceeded">>

\* C29: the program never modifies a configuration file that exists: the
\* template is written only when there is no file, in load_config, and on
\* every other path the file is as it was when main started; without a
\* command, main prints the help and exits with the configuration neither
\* read nor created and no call of the gateway.
C29_ConfigFileNeverModified ==
    /\ \/ config_file = config_at_start
       \/ /\ config_at_start = "absent"
          /\ config_file = "template"
          /\ config_loads = 1
    /\ (command = "none" /\ spc = "exited")
           => /\ config_loads = 0
              /\ config_file = config_at_start
              /\ reddit = "None"
              /\ startup_wait = 0
              /\ conn_calls = 0
              /\ cmd_calls = 0
              /\ exit_status = 0

C29_Witness ==
    /\ command = "none"
    /\ spc = "exited"
    /\ config_at_start = "absent"
    /\ config_file = "absent"
    /\ config_loads = 0

\* ------------------------------- domain operations run by the executor
\* public methods that pass their _impl function to _execute_with_retry
Operations == {"post_to_subreddit", "get_subreddit_flairs", "delete_post",
               "comment_on_post", "reply_to_comment", "upvote_post",
               "send_message", "search_posts", "edit_post", "edit_comment"}

\* the body of the _impl function is a try statement with `except Exception`
HasTry(o) == o \notin {"post_to_subreddit", "get_subreddit_flairs"}

\* the value the except clause of the _impl function returns
ExceptValue(o) ==
    CASE o \in {"comment_on_post", "reply_to_comment"} -> "None"
      [] o = "search_posts" -> "EmptyList"
      [] OTHER -> "False"

\* the values the _impl function returns when no gateway call raises
SuccessValues(o) ==
    CASE o \in {"post_to_subreddit", "comment_on_post", "reply_to_comment"}
             -> {"val1"}
      [] o \in {"get_subreddit_flairs", "search_posts"}
             -> {"EmptyList", "val1"}
      [] OTHER -> {"True"}

\* all of them
ImplValues == UNION {SuccessValues(o) : o \in Operations}

\* the _impl function calls a gateway operation that writes
Writes(o) == o \notin {"get_subreddit_flairs", "search_posts"}

\* variant: only _delete_post_impl compares the author with user.me()
OwnershipGuarded_OnlyDelete(o) == o = "delete_post"

\* the _impl function returns False before the write when the author of the
\* item is not self.reddit.user.me()
OwnershipGuarded(o) == o \in {"delete_post", "edit_post", "edit_comment"}

\* Python truth value of a returned value
Falsy(v) == v \in {"None", "False", "EmptyList"}

\* the `or False` and `or []` of the public methods
OrDefault(o, v) ==
    CASE o \in {"delete_post", "upvote_post", "send_message", "edit_post",
                "edit_comment"} -> IF Falsy(v) THEN "False" ELSE v
      [] o \in {"get_subreddit_flairs", "search_posts"}
             -> IF Falsy(v) THEN "EmptyList" ELSE v
      [] OTHER -> v

\* the errors raised inside an _impl function: every type, with no marker,
\* with "429" or with "401" in the message
GatewayErrors == {e \in Errors : e.msg \in {{}, {"429"}, {"401"}}}

\* what happens in one run of an _impl function: nothing raises (stage
\* "none"), a read before the write raises err (stage "fetch"), the write,
\* or the listing of a read operation, raises err (stage "act"), or the
\* write returns and a statement after it, a lazy read of an attribute such
\* as the permalink or a print, raises err (stage "after"); a write that
\* raises may or may not have been applied by the remote side
GatewayBehaviours ==
    {[stage |-> "none", err |-> NoErr, applied |-> TRUE]}
    \cup [stage : {"fetch"}, err : GatewayErrors, applied : {FALSE}]
    \cup [stage : {"act"}, err : GatewayErrors, applied : BOOLEAN]
    \cup [stage : {"after"}, err : GatewayErrors, applied : {TRUE}]

\* values of the url and content arguments of post_to_subreddit: absent,
\* the empty string, or a text
UrlArgs == {"None", "", "u1"}
ContentArgs == {"None", "", "c1"}

\* Python truth value of an optional string
Truthy(x) == x \notin {"None", ""}

\* variant: the content is sent as selftext with a link post too
SubmitForm_ContentWithLink(u, c) ==
    IF Truthy(u)
    THEN [form |-> "link", url |-> u,
          selftext |-> IF Truthy(c) THEN c ELSE ""]
    ELSE [form |-> "text", url |-> "NotSent",
          selftext |-> IF Truthy(c) THEN c ELSE ""]

\* the keyword arguments of the subreddit.submit call that `if url:` chooses
SubmitForm(u, c) ==
    IF Truthy(u)
    THEN [form |-> "link", url |-> u, selftext |-> "NotSent"]
    ELSE [form |-> "text", url |-> "NotSent",
          selftext |-> IF Truthy(c) THEN c ELSE ""]

\* a public method o is called on an item whose author is, or is not, the
\* authenticated user (one call of a command's operation in a process)
OpCall(o, mine, u, c) ==
    /\ pc = "idle"
    /\ op = "none"
    /\ o # "post_to_subreddit" => (u = "None" /\ c = "None")
    /\ post_url' = u
    /\ post_content' = c
    /\ submits' = <<>>
    /\ op' = o
    /\ author_is_me' = mine
    /\ impl_runs' = 0
    /\ impl_outcome' = NoOutcome
    /\ gateway_err' = NoErr
    /\ mutations' = 0
    /\ item_changed' = FALSE
    /\ op_result' = "Unset"
    /\ UNCHANGED <<evars, mvars, qvars, svars, cvars>>

\* the public method calls self._execute_with_retry(self._..._impl, ...)
OpExecute ==
    /\ op # "none"
    /\ op_result = "Unset"
    /\ pc = "idle"
    /\ Execute(DefaultMaxRetries, DefaultDelay)

\* one run of the _impl function, called by the executor, with gateway
\* behaviour g
ImplRuns(g, v) ==
    /\ op # "none"
    /\ pc = "loop"
    /\ attempt < max_retries
    /\ impl_runs = calls
    /\ v \in SuccessValues(op)
    /\ impl_runs' = impl_runs + 1
    /\ LET guarded == OwnershipGuarded(op) /\ ~author_is_me
           writes == Writes(op) /\ g.stage # "fetch" /\ ~guarded
           raised == g.stage = "fetch" \/ (g.stage # "none" /\ ~guarded)
       IN /\ mutations' = IF writes THEN mutations + 1 ELSE mutations
          /\ submits' =
                 IF op = "post_to_subreddit" /\ writes
                 THEN Append(submits,
                             [args |-> SubmitForm(post_url, post_content),
                              returned |-> g.stage \in {"none", "after"}])
                 ELSE submits
          /\ item_changed' = (item_changed \/ (writes /\ g.applied))
          /\ gateway_err' = IF raised THEN g.err ELSE NoErr
          /\ impl_outcome' =
                 IF raised
                 THEN IF HasTry(op)
                      THEN [kind |-> "returned", val |-> ExceptValue(op),
                            err |-> NoErr]
                      ELSE [kind |-> "raised", val |-> "Unset",
                            err |-> g.err]
                 ELSE [kind |-> "returned",
                       val |-> IF guarded THEN "False" ELSE v,
                       err |-> NoErr]
    /\ UNCHANGED <<op, author_is_me, op_result, post_url, post_content>>
    /\ UNCHANGED <<evars, mvars, qvars, svars, cvars>>

\* the executor gets the value of the run: `return func(*args, **kwargs)`
OpFuncReturns ==
    /\ op # "none"
    /\ impl_runs = calls + 1
    /\ impl_outcome.kind = "returned"
    /\ CallReturns(impl_outcome.val)

\* the executor gets the exception of the run: the except clauses
OpFuncRaises ==
    /\ op # "none"
    /\ impl_runs = calls + 1
    /\ impl_outcome.kind = "raised"
    /\ CallRaises(impl_outcome.err)

\* the public method returns the result of the executor
OpReturn ==
    /\ op # "none"
    /\ op_result = "Unset"
    /\ pc = "done"
    /\ op_result' = OrDefault(op, result)
    /\ UNCHANGED <<op, author_is_me, impl_runs, impl_outcome, gateway_err,
                   mutations, item_changed, post_url, post_content, submits>>
    /\ UNCHANGED <<evars, mvars, qvars, svars, cvars>>

\* C15: delete_post, edit_post and edit_comment issue no remote delete or
\* edit for an item whose author is not the authenticated user: the operation
\* returns False and the item is unchanged; and they issue the delete or edit
\* at most once in one invocation.
C15_OwnershipGuard ==
    op \in {"delete_post", "edit_post", "edit_comment"}
    => /\ mutations <= 1
       /\ ~author_is_me
              => /\ mutations = 0
                 /\ ~item_changed
                 /\ impl_outcome.kind \in {"none", "returned"}
                 /\ impl_outcome.kind = "returned"
                        => impl_outcome.val = "False"
                 /\ op_result \in {"Unset", "False"}

C15_Witness ==
    /\ op = "edit_comment"
    /\ ~author_is_me
    /\ impl_runs = 1
    /\ calls = 1
    /\ gateway_err = NoErr
    /\ mutations = 0
    /\ op_result = "False"

\* C18: every operation routed through the executor is retried as a unit:
\* when a gateway call inside it has raised an error that the executor's
\* handlers class as rate limited or transient and attempts remain, the
\* executor has slept the current delay and is about to invoke it again.
C18_OperationsRetriedAsUnit ==
    (/\ op # "none"
     /\ gateway_err # NoErr
     /\ Branch(gateway_err) \in {"RateLimited", "Transient"}
     /\ impl_runs = calls
     /\ calls < max_retries)
    => /\ pc = "loop"
       /\ Len(sleeps) = calls
       /\ sleeps[Len(sleeps)] = delay0 * (2 ^ (calls - 1))

\* C24: post_to_subreddit submits a link post with the url, and does not send
\* the content, when a url is given, and a text post whose body is the
\* content, or the empty string when there is no content, when no url is
\* given (an empty url counts as none); a run of the implementation makes at
\* most one submit call, and exactly one when it returns.
C24_PostFormByUrl ==
    op = "post_to_subreddit"
    => /\ Len(submits) <= impl_runs
       /\ \A i \in 1 .. Len(submits) :
              LET a == submits[i].args IN
              /\ post_url \notin {"None", ""}
                     => /\ a.form = "link"
                        /\ a.url = post_url
                        /\ a.selftext = "NotSent"
              /\ post_url \in {"None", ""}
                     => /\ a.form = "text"
                        /\ a.url = "NotSent"
                        /\ a.selftext = IF post_content \in {"None", ""}
                                        THEN "" ELSE post_content
       /\ impl_outcome.kind = "returned"
              => /\ Len(submits) >= 1
                 /\ submits[Len(submits)].returned

C24_Witness ==
    /\ op = "post_to_subreddit"
    /\ post_url = "u1"
    /\ post_content = "c1"
    /\ submits = <<[args |-> [form |-> "link", url |-> "u1",
                              selftext |-> "NotSent"],
                    returned |-> TRUE]>>
    /\ op_result = "val1"

\* C26: one invocation of post_to_subreddit makes at most one submit call
\* that succeeds: the executor never runs the implementation again after a
\* submit has returned, also when a statement after the submit raises.
C26_AtMostOneSuccessfulSubmit ==
    op = "post_to_subreddit"
    => Cardinality({i \in 1 .. Len(submits) : submits[i].returned}) <= 1

\* ------------------------------ the executor in a process that started
\* a command's branch of main calls _execute_with_retry, any number of times
\* up to MaxRuns, once the constructor has returned
CommandExecutes(mr, d) ==
    /\ spc = "command"
    /\ Execute(mr, d)

\* C25 as stated: on every path the number of sleeps is the number of
\* invocations minus one, in the executor and in the connectivity check.
C25_SleepsAreCallsMinusOne ==
    /\ pc = "done" => Len(sleeps) = calls - 1
    /\ spc \in {"command", "exited"} /\ conn_calls > 0
           => Len(conn_sleeps) = conn_calls - 1

\* C25 amended: every sleep is followed by another invocation: a run of the
\* executor or of the connectivity check that invoked the operation n >= 1
\* times has slept n - 1 times when it ends, by success or by failure, and
\* while it goes on every sleep made so far has an invocation after it or to
\* come; a run of the executor with max_retries <= 0 makes no invocation and
\* no sleep.
C25_NoSleepAfterLastAttempt ==
    /\ (pc = "done" /\ calls >= 1) => Len(sleeps) = calls - 1
    /\ (pc = "done" /\ calls = 0) => sleeps = <<>> /\ max_retries <= 0
    /\ pc = "loop"
           => /\ Len(sleeps) = calls
              /\ calls >= 1 => attempt < max_retries
    /\ (spc \in {"command", "exited"} /\ conn_calls >= 1)
           => Len(conn_sleeps) = conn_calls - 1
    /\ spc = "connect"
           => Len(conn_sleeps) = conn_calls /\ conn_attempt < 3

C25_Witness ==
    /\ connected
    /\ conn_calls = 2
    /\ conn_sleeps = <<5>>
    /\ pc = "done"
    /\ outcome = "returned_value"
    /\ calls = 3
    /\ sleeps = <<delay0, 2 * delay0>>

\* ------------------------------------------------ _search_comments_impl
\* a text of n filler characters
Pad(n) == [i \in 1 .. n |-> "x"]

\* str.lower() on a character and on a string
LowerChar(ch) ==
    CASE ch = "A" -> "a"
      [] ch = "B" -> "b"
      [] OTHER -> ch
LowerStr(str) == [i \in 1 .. Len(str) |-> LowerChar(str[i])]

\* bodies of comments: short ones, with and without the letters a and b
\* next to each other in some case, and bodies longer than BodyCut with
\* these letters before and after the cut
Bodies == {<<"A", "b">>, <<"b", "c", "a">>,
           Pad(BodyCut - 2) \o <<"a", "B", "c">>,
           Pad(BodyCut) \o <<"a", "b">>}
Queries == {<<"a", "b">>, <<"A", "B">>, <<"c">>}
Limits == 0 .. MaxLimit

\* what search_target.comments(limit=lim) lists: at most lim comments
Listings(lim) == UNION {[1 .. n -> Bodies] : n \in 0 .. lim}

\* variant: the test compares the texts as they are
Matches_CaseSensitive(q, body) == IsSubstring(q, body)

\* `query.lower() in comment.body.lower()`
Matches(q, body) == IsSubstring(LowerStr(q), LowerStr(body))

\* `comment.body[:200] + "..." if len(comment.body) > 200 else comment.body`
BodyField(body) ==
    IF Len(body) > BodyCut
    THEN SubSeq(body, 1, BodyCut) \o <<".", ".", ".">>
    ELSE body

\* a call of _search_comments_impl(q, subreddit, lim), the gateway listing
\* the comments with the bodies lst
SearchStart(q, lim, lst) ==
    /\ qpc = "idle"
    /\ lst \in Listings(lim)
    /\ query' = q
    /\ limit' = lim
    /\ listing' = lst
    /\ inspected' = 0
    /\ found' = <<>>
    /\ qpc' = "loop"
    /\ UNCHANGED <<evars, mvars, svars, cvars, ovars>>

\* one iteration of `for comment in search_target.comments(limit=limit)`
SearchInspect ==
    /\ qpc = "loop"
    /\ inspected < Len(listing)
    /\ inspected' = inspected + 1
    /\ LET body == listing[inspected + 1] IN
       IF Matches(query, body)
       THEN /\ found' = Append(found, [full |-> body,
                                       body |-> BodyField(body)])
            /\ qpc' = IF Len(found) + 1 >= limit THEN "done" ELSE "loop"
       ELSE UNCHANGED <<found, qpc>>
    /\ UNCHANGED <<query, limit, listing>>
    /\ UNCHANGED <<evars, mvars, svars, cvars, ovars>>

\* the listing raises: the except clause returns []
SearchRaises ==
    /\ qpc = "loop"
    /\ found' = <<>>
    /\ qpc' = "done"
    /\ UNCHANGED <<query, limit, listing, inspected>>
    /\ UNCHANGED <<evars, mvars, svars, cvars, ovars>>

\* the listing ends: `return comments`
SearchReturn ==
    /\ qpc = "loop"
    /\ inspected >= Len(listing)
    /\ qpc' = "done"
    /\ UNCHANGED <<query, limit, listing, inspected, found>>
    /\ UNCHANGED <<evars, mvars, svars, cvars, ovars>>

\* C30 as stated: search_comments returns at most limit comments, the body
\* of every returned entry contains the query whatever the letter case, the
\* entries are in the order of the listing, and at most limit comments of
\* the listing are inspected.
C30_SearchResultsContainQuery ==
    qpc = "done"
    => /\ Len(found) <= limit
       /\ inspected <= limit
       /\ \A i \in 1 .. Len(found) :
              IsSubstring(LowerStr(query), LowerStr(found[i].body))
       /\ \/ found = <<>>
          \/ LET hit(b) == IsSubstring(LowerStr(query), LowerStr(b))
             IN [i \in 1 .. Len(found) |-> found[i].full]
                    = SelectSeq(SubSeq(listing, 1, inspected), hit)

\* C30 amended: search_comments returns at most limit comments, every
\* returned entry stands for a comment whose full body contains the query
\* whatever the letter case, the entries are all such comments among the
\* inspected ones, in the order of the listing, and at most limit comments
\* are inspected; the body stored in an entry is the full body when it has
\* at most 200 characters and else its first 200 characters followed by
\* "...", which need not contain the query.
C30_SearchResultsMatchFullBody ==
    qpc = "done"
    => /\ Len(found) <= limit
       /\ inspected <= limit
       /\ \A i \in 1 .. Len(found) :
              /\ IsSubstring(LowerStr(query), LowerStr(found[i].full))
              /\ Len(found[i].full) <= 200 => found[i].body = found[i].full
              /\ Len(found[i].full) > 200
                     => /\ Len(found[i].body) = 203
                        /\ SubSeq(found[i].body, 1, 200)
                               = SubSeq(found[i].full, 1, 200)
                        /\ SubSeq(found[i].body, 201, 203) = <<".", ".", ".">>
       /\ \/ found = <<>>
          \/ LET hit(b) == IsSubstring(LowerStr(query), LowerStr(b))
             IN [i \in 1 .. Len(found) |-> found[i].full]
                    = SelectSeq(SubSeq(listing, 1, inspected), hit)

C30_Witness ==
    /\ qpc = "done"
    /\ limit = 2
    /\ query = <<"A", "B">>
    /\ Len(listing) = 2
    /\ inspected = 2
    /\ Len(found) = 2
    /\ found[1].full = <<"A", "b">>
    /\ Len(found[2].full) > 200
    /\ ~IsSubstring(<<"a", "b">>, LowerStr(found[2].body))

\* ------------------------------------------------------ specifications
InitBase ==
    /\ pc = "idle"
    /\ max_retries = DefaultMaxRetries
    /\ delay0 = DefaultDelay
    /\ attempt = 0
    /\ delay = DefaultDelay
    /\ calls = 0
    /\ sleeps = <<>>
    /\ out = <<>>
    /\ lastErr = NoErr
    /\ lastRet = "Unset"
    /\ result = "Unset"
    /\ outcome = "none"
    /\ runs = 0
    /\ retried_before = FALSE
    /\ mpc = "idle"
    /\ max_checks = 0
    /\ check = 0
    /\ seen_comment_ids = {}
    /\ all_responses = <<>>
    /\ reads = <<>>
    /\ observed = <<>>
    /\ waits = 0
    /\ spc = "idle"
    /\ command = "none"
    /\ reddit = "None"
    /\ startup_wait = 0
    /\ conn_attempt = 0
    /\ conn_delay = DefaultDelay
    /\ conn_calls = 0
    /\ conn_sleeps = <<>>
    /\ conn_out = <<>>
    /\ conn_lastErr = NoErr
    /\ connected = FALSE
    /\ cmd_calls = 0
    /\ exit_status = -1
    /\ config_loads = 0
    /\ url = NoUrl
    /\ dispatched = "none"
    /\ cmd_outcome = "none"
    /\ op = "none"
    /\ author_is_me = FALSE
    /\ impl_runs = 0
    /\ impl_outcome = NoOutcome
    /\ gateway_err = NoErr
    /\ mutations = 0
    /\ item_changed = FALSE
    /\ op_result = "Unset"
    /\ post_url = "None"
    /\ post_content = "None"
    /\ submits = <<>>
    /\ qpc = "idle"
    /\ query = <<>>
    /\ limit = 0
    /\ listing = <<>>
    /\ inspected = 0
    /\ found = <<>>

Init == InitBase /\ config_file = "valid" /\ config_at_start = "valid"

Next ==
    \/ \E mr \in RetryChoices, d \in Delays : Execute(mr, d)
    \/ \E v \in Values : CallReturns(v)
    \/ \E e \in Errors : CallRaises(e)
    \/ LoopExit

Spec == Init /\ [][Next]_vars

\* one iteration of the loop of the executor, or its end
LoopStep ==
    \/ \E v \in Values : CallReturns(v)
    \/ \E e \in GatewayErrors : CallRaises(e)
    \/ LoopExit

\* the executor with errors of at most one marker
NextFair ==
    \/ \E mr \in RetryChoices, d \in Delays : Execute(mr, d)
    \/ \E v \in Values : CallReturns(v)
    \/ \E e \in GatewayErrors : CallRaises(e)
    \/ LoopExit

\* every invocation of func returns or raises and every sleep ends: an
\* iteration that can be taken is taken
SpecFair == Init /\ [][NextFair]_vars /\ WF_vars(LoopStep)

NextMonitor ==
    \/ \E mc \in CheckChoices : MonitorStart(mc)
    \/ \E comments \in CommentLists : MonitorCheck(comments)
    \/ MonitorReadRaises
    \/ MonitorReturn

SpecMonitor == Init /\ [][NextMonitor]_vars

\* the polling loop for the counting of reads and waits: the lists read hold
\* at most one comment
NextMonitorFair ==
    \/ \E mc \in CheckChoices : MonitorStart(mc)
    \/ \E comments \in {l \in CommentLists : Len(l) <= 1} :
           MonitorCheck(comments)
    \/ MonitorReadRaises
    \/ MonitorReturn

\* every read of the comments ends, by a list or by an exception, and so
\* does every wait: a step of the polling loop that can be taken is taken
SpecMonitorFair ==
    Init /\ [][NextMonitorFair]_vars /\ WF_vars(NextMonitorFair)

InitMain ==
    /\ InitBase
    /\ config_file \in ConfigStates
    /\ config_at_start = config_file

NextMain ==
    \/ \E cmd \in Commands, u \in Urls \cup {NoUrl} : Main(cmd, u)
    \/ LoadConfig
    \/ ConnReturns
    \/ \E e \in Errors : ConnRaises(e)
    \/ \E fails \in BOOLEAN : RunCommand(fails)

SpecMain == InitMain /\ [][NextMain]_vars

\* a process with a valid configuration: the startup, then calls of the
\* executor by the command, with errors of GatewayErrors
NextProcess ==
    \/ \E cmd \in Commands \ {"none"}, u \in {NoUrl, [designates |-> "post", text |-> ShortUrlText]} :
           Main(cmd, u)
    \/ LoadConfig
    \/ ConnReturns
    \/ \E e \in GatewayErrors : ConnRaises(e)
    \/ \E mr \in RetryChoices, d \in Delays : CommandExecutes(mr, d)
    \/ \E v \in Values : CallReturns(v)
    \/ \E e \in GatewayErrors : CallRaises(e)
    \/ LoopExit

SpecProcess == Init /\ [][NextProcess]_vars

NextOp ==
    \/ \E o \in Operations, mine \in BOOLEAN, u \in UrlArgs, c \in ContentArgs :
           OpCall(o, mine, u, c)
    \/ OpExecute
    \/ \E g \in GatewayBehaviours, v \in ImplValues : ImplRuns(g, v)
    \/ OpFuncReturns
    \/ OpFuncRaises
    \/ OpReturn

SpecOp == Init /\ [][NextOp]_vars

NextSearch ==
    \/ \E q \in Queries, lim \in Limits, lst \in Listings(MaxLimit) :
           SearchStart(q, lim, lst)
    \/ SearchInspect
    \/ SearchRaises
    \/ SearchReturn

SpecSearch == Init /\ [][NextSearch]_vars

====
